---- MODULE Spec2Model ----
(***************************************************************************)
(* Delegation decision logic of dataparency-dev/AI-delegation:             *)
(*   - the task store and the engine's handlers (engine.go),               *)
(*   - Delegation Capability Tokens (security.go),                         *)
(*   - the circuit breaker of one agent (security.go).                     *)
(* Strings that the code inspects character by character (caveat values,   *)
(* operations, scopes) are sequences of one-character strings.             *)
(***************************************************************************)
EXTENDS Integers, Sequences, FiniteSets, TLC

VARIABLES
    now,        \* the wall clock read by time.Now()
    tokens,     \* every DCT created so far, in creation order
    dres,       \* the last DCT call and what it returned
    tasks,      \* Tasks/<id>/<aspect>: spec, result_artifact, verification
    rep,        \* Reputation/<agent>/<key>: the stored reputation records
    triggers,   \* Triggers/<task>/<triggerID>: the stored triggers
    contracts,  \* Contracts/<contractID>/terms: the stored contracts
    ret,        \* the last engine call and what it returned
    ops,        \* the number of engine calls made so far
    cb,         \* the CircuitBreaker of one agent, once constructed
    cbres,      \* the last breaker call and what it returned
    rank,       \* the last RankBids call and what it returned
    inflight,   \* two engine calls in progress: position and copy of the task
    base        \* the task store when the first of the two calls began

vars == <<now, tokens, dres, tasks, rep, triggers, contracts, ret, ops, cb, cbres,
          rank, inflight, base>>

dctVars == <<tokens, dres>>
engineVars == <<tasks, rep, triggers, contracts, ret, ops>>
cbVars == <<cb, cbres>>
marketVars == <<rank>>
callVars == <<inflight, base>>

\* ------------------------------------------------------------------ bounds

MaxTime == 2        \* the clock stops advancing here
MaxTokens == 3      \* tokens created in one behaviour
MaxRoots == 1       \* tokens minted directly (roots of the token forest)
MaxAccessTokens == 2 \* tokens created in a behaviour that also validates access
MaxExtensions == 2  \* budget extensions granted to one task
MaxChildren == 2    \* sub-tasks handed to one DecomposeTask call
MaxEngineTime == 1  \* the clock stops advancing here while the engine runs
MaxOps == 3         \* engine calls in one behaviour
MaxDelay == 1       \* clock advance between two clock reads of one call
MaxThreshold == 2   \* the largest failure threshold a breaker is built with
MaxFailures == 4    \* the failure counter stops growing here
MaxBreakerTime == 4 \* the clock stops advancing here while the breaker runs
MaxCalls == 10      \* collaborator calls of one handler run that may be made to fail
MaxFaultyOps == 3   \* engine calls in a behaviour with failing collaborators
MaxDecomposeOps == 2 \* engine calls in a behaviour of the decomposition
MaxStamp == 4       \* latest RecordedAt of a record in a posted history
MaxHistory == 2     \* records in a posted history
MaxTrustTime == 2   \* the clock stops advancing here while trust is computed
MaxBids == 2        \* bids in one RankBids call

\* ------------------------------------------------------------------ strings

S_read == <<"r", "e", "a", "d">>
S_write == <<"w", "r", "i", "t", "e">>
S_rea == <<"r", "e", "a">>
S_execute == <<"e", "x", "e", "c", "u", "t", "e">>
S_read_execute == S_read \o <<",">> \o S_execute
S_ad_ex == <<"a", "d", ",", "e", "x">>
S_empty == <<>>

S_ab == <<"a", "b">>
S_ab_c == <<"a", "b", "/", "c">>
S_abz == <<"a", "b", "z">>
S_x == <<"x">>

\* strings.Contains(s, substr)
StringsContains(s, substr) ==
    \E i \in 0..(Len(s) - Len(substr)) : SubSeq(s, i + 1, i + Len(substr)) = substr

\* strings.HasPrefix(s, prefix)
StringsHasPrefix(s, prefix) ==
    Len(prefix) <= Len(s) /\ SubSeq(s, 1, Len(prefix)) = prefix

\* The comma-separated list a caveat value denotes, as a set of strings.
RECURSIVE SplitComma(_, _)
SplitComma(s, cur) ==
    IF s = <<>> THEN {cur}
    ELSE IF Head(s) = "," THEN {cur} \cup SplitComma(Tail(s), <<>>)
    ELSE SplitComma(Tail(s), Append(cur, Head(s)))

ListedOperations(value) == SplitComma(value, <<>>)

\* ------------------------------------------------------------------ DCT

Nil == "nil"
NoToken == [TokenID |-> <<>>]

Agents == {"agent-a", "agent-b"}
Granter == "agent-orchestrator-01"
Resource == "analytics-db"

Caveat(type, key, value) == [Type |-> type, Key |-> key, Value |-> value]

CaveatPool ==
    { Caveat("operation", "ops", S_read_execute),
      Caveat("operation", "ops", S_read),
      Caveat("scope", "tables", S_ab),
      Caveat("scope", "tables", S_ab_c),
      Caveat("time", "window", S_x),
      Caveat("budget", "max", S_x) }

\* Caveat lists handed to MintDCT and Attenuate (variadic arguments).
MintCaveatLists ==
    { <<>>,
      << Caveat("operation", "ops", S_read_execute), Caveat("scope", "tables", S_ab) >> }

AdditionalCaveatLists ==
    { << Caveat("operation", "ops", S_read) >>,
      << Caveat("scope", "tables", S_ab_c) >>,
      << Caveat("time", "window", S_x), Caveat("budget", "max", S_x) >> }

\* The <<operation, scope>> pairs handed to ValidateAccess.
Requests ==
    { <<S_read, S_ab>>, <<S_read, S_abz>>, <<S_write, S_ab_c>>,
      <<S_rea, S_ab_c>>, <<S_empty, S_ab>>, <<S_ad_ex, S_ab_c>> }
TTLs == { 1 }

\* MintDCT, with t the value of its time.Now().
MintDCT(granterID, bearerID, resource, ttl, caveats, t) ==
    [ TokenID   |-> <<"dct", granterID, bearerID, t>>,
      GranterID |-> granterID,
      BearerID  |-> bearerID,
      Resource  |-> resource,
      Caveats   |-> caveats,
      IssuedAt  |-> t,
      ExpiresAt |-> t + ttl,
      Revoked   |-> FALSE ]

\* A plausible slip: the child carries only the new caveats.
mAttenuateDropsParent(d, newBearerID, additionalCaveats, t0, t1, t2) ==
    IF d.Revoked THEN [err |-> "revoked", child |-> NoToken]
    ELSE IF t0 > d.ExpiresAt THEN [err |-> "expired", child |-> NoToken]
    ELSE [ err |-> Nil,
           child |-> MintDCT(d.BearerID, newBearerID, d.Resource,
                             d.ExpiresAt - t1, additionalCaveats, t2) ]

\* A plausible slip: the expiry check is missing.
mAttenuateNoExpiryCheck(d, newBearerID, additionalCaveats, t0, t1, t2) ==
    IF d.Revoked THEN [err |-> "revoked", child |-> NoToken]
    ELSE [ err |-> Nil,
           child |-> MintDCT(d.BearerID, newBearerID, d.Resource,
                             d.ExpiresAt - t1, d.Caveats \o additionalCaveats, t2) ]

\* DCT.Attenuate. Its three clock reads: t0 = time.Now() of the expiry check,
\* t1 = the time.Now() inside time.Until, t2 = the time.Now() inside MintDCT.
Attenuate(d, newBearerID, additionalCaveats, t0, t1, t2) ==
    IF d.Revoked THEN [err |-> "revoked", child |-> NoToken]
    ELSE IF t0 > d.ExpiresAt THEN [err |-> "expired", child |-> NoToken]
    ELSE LET allCaveats == d.Caveats \o additionalCaveats
         IN  [ err |-> Nil,
               child |-> MintDCT(d.BearerID, newBearerID, d.Resource,
                                 d.ExpiresAt - t1, allCaveats, t2) ]

\* The test ValidateAccess applies to one caveat (the body of its switch).
CaveatPermits(c, operation, scope) ==
    CASE c.Type = "operation" -> StringsContains(c.Value, operation)
      [] c.Type = "scope"     -> StringsHasPrefix(scope, c.Value)
      [] OTHER                -> TRUE

CaveatError(c) ==
    IF c.Type = "operation" THEN "operation not permitted" ELSE "scope outside boundary"

\* A plausible slip: the loop returns as soon as one caveat is satisfied.
RECURSIVE mCheckFirstOnly(_, _, _, _)
mCheckFirstOnly(caveats, i, operation, scope) ==
    IF i > Len(caveats) THEN Nil
    ELSE IF caveats[i].Type \notin {"operation", "scope"}
         THEN mCheckFirstOnly(caveats, i + 1, operation, scope)
    ELSE IF ~CaveatPermits(caveats[i], operation, scope) THEN CaveatError(caveats[i])
    ELSE Nil

\* The loop of ValidateAccess over d.Caveats, from index i on.
RECURSIVE CheckCaveats(_, _, _, _)
CheckCaveats(caveats, i, operation, scope) ==
    IF i > Len(caveats) THEN Nil
    ELSE IF ~CaveatPermits(caveats[i], operation, scope) THEN CaveatError(caveats[i])
    ELSE CheckCaveats(caveats, i + 1, operation, scope)

\* A plausible slip: a revoked token is still checked against its caveats only.
mValidateIgnoresState(d, operation, scope, t) ==
    CheckCaveats(d.Caveats, 1, operation, scope)

\* DCT.ValidateAccess, with t the value of its time.Now().
ValidateAccess(d, operation, scope, t) ==
    IF d.Revoked THEN "token revoked"
    ELSE IF t > d.ExpiresAt THEN "token expired"
    ELSE CheckCaveats(d.Caveats, 1, operation, scope)

NoCall == [op |-> "none", tok |-> 0, operation |-> <<>>, scope |-> <<>>,
           caveats |-> <<>>, t |-> 0, err |-> Nil, child |-> 0]

\* No breaker has been constructed, no breaker method has been called.
NoBreaker == [State |-> "none"]
NoBreakerCall == [op |-> "none", result |-> FALSE, trust |-> 0]

NoRet == [op |-> "none", task |-> "", err |-> FALSE, type |-> "", urgent |-> FALSE,
          subTasks |-> <<>>, agent |-> "", passed |-> FALSE, pub |-> <<>>,
          failed |-> FALSE, score |-> [nan |-> FALSE, num |-> 0, den |-> 1]]

NoRank == [op |-> "none", bids |-> <<>>, agentTrust |-> <<>>, requiredCaps |-> <<>>,
           out |-> <<>>]

\* Nothing is stored, no token exists, nothing has been called.
\* The two calls whose store reads and writes may interleave.
Callers == {"c1", "c2"}
NoInflight ==
    [c \in Callers |-> [pc |-> "idle", op |-> "none", agent |-> "", task |-> [TaskID |-> ""]]]

Init ==
    /\ now = 0
    /\ tokens = <<>> /\ dres = NoCall
    /\ tasks = <<>> /\ rep = <<>> /\ triggers = <<>> /\ contracts = <<>>
    /\ ret = NoRet
    /\ ops = 0
    /\ cb = NoBreaker /\ cbres = NoBreakerCall
    /\ rank = NoRank
    /\ inflight = NoInflight /\ base = <<>>

\* tokens[i] = [d |-> the DCT, parent |-> index of the token it was attenuated
\* from, 0 for a minted one].
Roots == { i \in 1..Len(tokens) : tokens[i].parent = 0 }

Mint(Lists) ==
    /\ Len(tokens) < MaxTokens
    /\ Cardinality(Roots) < MaxRoots
    /\ \E b \in {"agent-a"}, ttl \in TTLs, cs \in Lists :
          /\ tokens' = Append(tokens,
                 [d |-> MintDCT(Granter, b, Resource, ttl, cs, now), parent |-> 0])
          /\ dres' = [NoCall EXCEPT !.op = "MintDCT", !.caveats = cs, !.t = now,
                                    !.child = Len(tokens) + 1]
    /\ UNCHANGED <<now>>

AttenuateCall(Lists) ==
    /\ Len(tokens) < MaxTokens
    /\ \E i \in 1..Len(tokens), nb \in {"agent-b"}, cs \in Lists,
          d1 \in 0..MaxDelay, d2 \in 0..MaxDelay :
          LET t0 == now
              t1 == t0 + d1
              t2 == t1 + d2
              r  == Attenuate(tokens[i].d, nb, cs, t0, t1, t2)
          IN  /\ t2 <= MaxTime
              /\ IF r.err = Nil
                 THEN /\ tokens' = Append(tokens, [d |-> r.child, parent |-> i])
                      /\ now' = t2
                 ELSE /\ tokens' = tokens
                      /\ now' = t0
                      /\ d1 = 0 /\ d2 = 0
              /\ dres' = [NoCall EXCEPT !.op = "Attenuate", !.tok = i, !.caveats = cs,
                                        !.t = t0, !.err = r.err,
                                        !.child = IF r.err = Nil THEN Len(tokens) + 1 ELSE 0]

\* The holder of a token sets its exported Revoked field.
Revoke ==
    /\ \E i \in 1..Len(tokens) :
          /\ ~tokens[i].d.Revoked
          /\ tokens' = [tokens EXCEPT ![i].d.Revoked = TRUE]
          /\ dres' = [NoCall EXCEPT !.op = "Revoke", !.tok = i, !.t = now]
    /\ UNCHANGED <<now>>

Validate ==
    /\ \E i \in 1..Len(tokens), rq \in Requests :
          dres' = [NoCall EXCEPT !.op = "ValidateAccess", !.tok = i,
                                 !.operation = rq[1], !.scope = rq[2], !.t = now,
                                 !.err = ValidateAccess(tokens[i].d, rq[1], rq[2], now)]
    /\ UNCHANGED <<now, tokens>>

Tick ==
    /\ now < MaxTime
    /\ now' = now + 1

DCTTick ==
    /\ Tick
    /\ dres' = NoCall
    /\ UNCHANGED <<tokens>>

\* Caveat lists of the chain specification.
ChainMintLists == { m \in MintCaveatLists : m # <<>> }
ChainAdditionalLists == { <<>>, << Caveat("operation", "ops", S_read) >> }

DCTNext ==
    \/ Mint(ChainMintLists) /\ UNCHANGED <<engineVars, cbVars, marketVars, callVars>>
    \/ AttenuateCall(ChainAdditionalLists) /\ UNCHANGED <<engineVars, cbVars, marketVars, callVars>>
    \/ Revoke /\ UNCHANGED <<engineVars, cbVars, marketVars, callVars>>
    \/ DCTTick /\ UNCHANGED <<engineVars, cbVars, marketVars, callVars>>

\* Token chains: minting, attenuation, revocation and the clock.
SpecDCT == Init /\ [][DCTNext]_vars

AccessNext ==
    \/ Len(tokens) < MaxAccessTokens /\ Mint(MintCaveatLists) /\ UNCHANGED <<engineVars, cbVars, marketVars, callVars>>
    \/ Len(tokens) < MaxAccessTokens /\ AttenuateCall(AdditionalCaveatLists)
          /\ UNCHANGED <<engineVars, cbVars, marketVars, callVars>>
    \/ Revoke /\ UNCHANGED <<engineVars, cbVars, marketVars, callVars>>
    \/ Validate /\ UNCHANGED <<engineVars, cbVars, marketVars, callVars>>
    \/ DCTTick /\ UNCHANGED <<engineVars, cbVars, marketVars, callVars>>

\* Token chains together with access validation.
SpecAccess == Init /\ [][AccessNext]_vars

\* ------------------------------------------------------------------ circuit breaker

CooldownPeriod == 2     \* 30 minutes, in clock units
TrustFloor == 40        \* 0.4, trust in hundredths
ZeroTime == -1000       \* the zero time.Time of a breaker that never tripped
Thresholds == 1..MaxThreshold
Trusts == {TrustFloor - 10, TrustFloor, TrustFloor + 10}

\* NewCircuitBreaker
NewCircuitBreaker(agentID, failureThreshold, trustFloor) ==
    [AgentID |-> agentID, FailureCount |-> 0, FailureThreshold |-> failureThreshold,
     TrustFloor |-> trustFloor, CooldownPeriod |-> CooldownPeriod,
     State |-> "closed", LastTripped |-> ZeroTime]

\* A plausible slip: the breaker trips only once the counter exceeds the threshold.
mRecordFailureTripsLate(b, t) ==
    LET c == [b EXCEPT !.FailureCount = @ + 1]
    IN  IF c.FailureCount > c.FailureThreshold
        THEN [cb |-> [c EXCEPT !.State = "open", !.LastTripped = t], result |-> TRUE]
        ELSE [cb |-> c, result |-> FALSE]

\* CircuitBreaker.RecordFailure at clock t: the breaker after it and the result.
RecordFailure(b, t) ==
    LET c == [b EXCEPT !.FailureCount = @ + 1]
    IN  IF c.FailureCount >= c.FailureThreshold
        THEN [cb |-> [c EXCEPT !.State = "open", !.LastTripped = t], result |-> TRUE]
        ELSE [cb |-> c, result |-> FALSE]

\* A plausible slip: only the counter is reset.
mRecordSuccessKeepsState(b) == [b EXCEPT !.FailureCount = 0]

\* CircuitBreaker.RecordSuccess
RecordSuccess(b) == [b EXCEPT !.FailureCount = 0, !.State = "closed"]

\* A plausible slip: trust equal to the floor trips as well.
mCheckTrustDropAtFloor(b, currentTrust, t) ==
    IF currentTrust <= b.TrustFloor
    THEN [cb |-> [b EXCEPT !.State = "open", !.LastTripped = t], result |-> TRUE]
    ELSE [cb |-> b, result |-> FALSE]

\* CircuitBreaker.CheckTrustDrop at clock t
CheckTrustDrop(b, currentTrust, t) ==
    IF currentTrust < b.TrustFloor
    THEN [cb |-> [b EXCEPT !.State = "open", !.LastTripped = t], result |-> TRUE]
    ELSE [cb |-> b, result |-> FALSE]

\* A plausible slip: a half-open breaker closes itself when it is asked again.
mIsAllowedCloses(b, t) ==
    CASE b.State = "closed" -> [cb |-> b, result |-> TRUE]
      [] b.State = "open" ->
             IF t - b.LastTripped > b.CooldownPeriod
             THEN [cb |-> [b EXCEPT !.State = "half_open"], result |-> TRUE]
             ELSE [cb |-> b, result |-> FALSE]
      [] b.State = "half_open" -> [cb |-> [b EXCEPT !.State = "closed"], result |-> TRUE]
      [] OTHER -> [cb |-> b, result |-> FALSE]

\* CircuitBreaker.IsAllowed at clock t
IsAllowed(b, t) ==
    CASE b.State = "closed" -> [cb |-> b, result |-> TRUE]
      [] b.State = "open" ->
             IF t - b.LastTripped > b.CooldownPeriod
             THEN [cb |-> [b EXCEPT !.State = "half_open"], result |-> TRUE]
             ELSE [cb |-> b, result |-> FALSE]
      [] b.State = "half_open" -> [cb |-> b, result |-> TRUE]
      [] OTHER -> [cb |-> b, result |-> FALSE]

Constructed == cb # NoBreaker

NewCircuitBreakerCall ==
    /\ ~Constructed
    /\ \E n \in Thresholds :
          cb' = NewCircuitBreaker("agent-a", n, TrustFloor)
    /\ cbres' = [NoBreakerCall EXCEPT !.op = "NewCircuitBreaker"]
    /\ UNCHANGED <<now>>

RecordFailureCall ==
    /\ Constructed
    /\ cb.FailureCount < MaxFailures
    /\ LET r == RecordFailure(cb, now)
       IN  /\ cb' = r.cb
           /\ cbres' = [NoBreakerCall EXCEPT !.op = "RecordFailure", !.result = r.result]
    /\ UNCHANGED <<now>>

RecordSuccessCall ==
    /\ Constructed
    /\ cb' = RecordSuccess(cb)
    /\ cbres' = [NoBreakerCall EXCEPT !.op = "RecordSuccess"]
    /\ UNCHANGED <<now>>

CheckTrustDropCall ==
    /\ Constructed
    /\ \E trust \in Trusts :
          LET r == CheckTrustDrop(cb, trust, now)
          IN  /\ cb' = r.cb
              /\ cbres' = [NoBreakerCall EXCEPT !.op = "CheckTrustDrop",
                                                !.result = r.result, !.trust = trust]
    /\ UNCHANGED <<now>>

IsAllowedCall ==
    /\ Constructed
    /\ LET r == IsAllowed(cb, now)
       IN  /\ cb' = r.cb
           /\ cbres' = [NoBreakerCall EXCEPT !.op = "IsAllowed", !.result = r.result]
    /\ UNCHANGED <<now>>

BreakerTick ==
    /\ now < MaxBreakerTime
    /\ now' = now + 1
    /\ cbres' = NoBreakerCall
    /\ UNCHANGED <<cb>>

BreakerNext ==
    \/ NewCircuitBreakerCall /\ UNCHANGED <<dctVars, engineVars, marketVars, callVars>>
    \/ RecordFailureCall /\ UNCHANGED <<dctVars, engineVars, marketVars, callVars>>
    \/ RecordSuccessCall /\ UNCHANGED <<dctVars, engineVars, marketVars, callVars>>
    \/ CheckTrustDropCall /\ UNCHANGED <<dctVars, engineVars, marketVars, callVars>>
    \/ IsAllowedCall /\ UNCHANGED <<dctVars, engineVars, marketVars, callVars>>
    \/ BreakerTick /\ UNCHANGED <<dctVars, engineVars, marketVars, callVars>>

\* One circuit breaker under every method and the clock.
SpecBreaker == Init /\ [][BreakerNext]_vars

ResilienceNext ==
    \/ Len(tokens) < MaxAccessTokens /\ Mint(ChainMintLists)
          /\ UNCHANGED <<engineVars, cbVars, marketVars, callVars>>
    \/ Len(tokens) < MaxAccessTokens /\ AttenuateCall(ChainAdditionalLists)
          /\ UNCHANGED <<engineVars, cbVars, marketVars, callVars>>
    \/ Validate /\ UNCHANGED <<engineVars, cbVars, marketVars, callVars>>
    \/ NewCircuitBreakerCall /\ UNCHANGED <<dctVars, engineVars, marketVars, callVars>>
    \/ RecordFailureCall /\ UNCHANGED <<dctVars, engineVars, marketVars, callVars>>
    \/ CheckTrustDropCall /\ UNCHANGED <<dctVars, engineVars, marketVars, callVars>>

\* The tokens of an agent and the breaker of that agent side by side.
SpecResilience == Init /\ [][ResilienceNext]_vars

\* ------------------------------------------------------------------ engine: store

SelfID == "agent-orchestrator-01"
VerifiabilityFloor == 30    \* 0.3, verifiability in hundredths
NoData == [TaskID |-> ""]

\* natsclient.Post on one domain: the latest write under a key wins.
Put(store, key, data) ==
    [k \in (DOMAIN store) \cup {key} |-> IF k = key THEN data ELSE store[k]]

\* The stores a handler works on, the tasks it published for bidding (pub) and
\* the number of collaborator calls it has made so far (calls).
World ==
    [Tasks |-> tasks, Reputation |-> rep, Triggers |-> triggers,
     Contracts |-> contracts, pub |-> <<>>, calls |-> 0]

Ok(w) == [w |-> w, err |-> FALSE]
Err(w) == [w |-> w, err |-> TRUE]

\* One call to a collaborator (store, registry, channel); F is the set of the
\* calls of this handler run, by ordinal, that the collaborator fails.
Collab(w) == [w EXCEPT !.calls = @ + 1]
Failing(w, F) == (w.calls + 1) \in F

\* Engine.storeData
storeData(w, F, domain, entity, aspect, data) ==
    IF Failing(w, F) THEN Err(Collab(w))
    ELSE Ok([Collab(w) EXCEPT ![domain] = Put(@, <<entity, aspect>>, data)])

\* Engine.retrieveData: fails when the collaborator fails or nothing is stored.
retrieveData(w, F, domain, entity, aspect) ==
    IF Failing(w, F) \/ <<entity, aspect>> \notin DOMAIN w[domain]
    THEN [w |-> Collab(w), err |-> TRUE, data |-> NoData]
    ELSE [w |-> Collab(w), err |-> FALSE, data |-> w[domain][<<entity, aspect>>]]

\* Engine.GetTask
GetTask(w, F, taskID) == retrieveData(w, F, "Tasks", taskID, "spec")

\* Engine.UpdateTask
UpdateTask(w, F, task) == storeData(w, F, "Tasks", task.TaskID, "spec", task)

\* ------------------------------------------------------------------ engine: tasks

\* Engine.CreateTask: EntityRegister (checked), RelationRegister (result
\* ignored), then the store of the spec.
CreateTask(w, F, task0) ==
    LET task == [task0 EXCEPT !.Status = "pending"]
    IN  IF Failing(w, F) THEN Err(Collab(w))
        ELSE storeData(Collab(Collab(w)), F, "Tasks", task.TaskID, "spec", task)

\* The loop of DecomposeTask over subTasks, from index i on.
RECURSIVE DecomposeLoop(_, _, _, _, _, _)
DecomposeLoop(w, F, parent, subTasks, i, subIDs) ==
    IF i > Len(subTasks) THEN [w |-> w, err |-> FALSE, subIDs |-> subIDs]
    ELSE LET sub == [subTasks[i] EXCEPT !.ParentTaskID = parent.TaskID,
                                        !.DelegatorID = parent.DelegatorID]
         IN  IF sub.Verifiability < VerifiabilityFloor /\ ~sub.IsLeaf
             THEN [w |-> w, err |-> TRUE, subIDs |-> subIDs]
             ELSE LET c == CreateTask(w, F, sub)
                  IN  IF c.err THEN [w |-> c.w, err |-> TRUE, subIDs |-> subIDs]
                      ELSE DecomposeLoop(c.w, F, parent, subTasks, i + 1,
                                         Append(subIDs, sub.TaskID))

mDecomposeTaskKeepsLeaf(w, F, parentID, subTasks) ==
    LET g == GetTask(w, F, parentID)
    IN  IF g.err THEN Err(g.w)
        ELSE LET l == DecomposeLoop(g.w, F, g.data, subTasks, 1, <<>>)
             IN  IF l.err THEN Err(l.w)
                 ELSE UpdateTask(l.w, F, [g.data EXCEPT !.SubTaskIDs = l.subIDs,
                                                        !.Status = "decomposed"])

\* Engine.DecomposeTask
DecomposeTask(w, F, parentID, subTasks) ==
    LET g == GetTask(w, F, parentID)
    IN  IF g.err THEN Err(g.w)
        ELSE LET l == DecomposeLoop(g.w, F, g.data, subTasks, 1, <<>>)
             IN  IF l.err THEN Err(l.w)
                 ELSE UpdateTask(l.w, F, [g.data EXCEPT !.SubTaskIDs = l.subIDs,
                                                        !.Status = "decomposed",
                                                        !.IsLeaf = FALSE])

\* Engine.PublishTaskForBidding: InitChannel, the store of the task as
\* "bidding", SecureChannelPublish.
PublishTaskForBidding(w, F, task0) ==
    IF Failing(w, F) THEN Err(Collab(w))
    ELSE LET task == [task0 EXCEPT !.Status = "bidding"]
             u == UpdateTask(Collab(w), F, task)
         IN  IF u.err THEN Err(u.w)
             ELSE IF Failing(u.w, F) THEN Err(Collab(u.w))
             ELSE Ok([Collab(u.w) EXCEPT !.pub = Append(@, task.TaskID)])

\* Engine.AcceptBid: the contract is stored first, then the task is read,
\* assigned and stored; the closing RelationRegister's result is ignored.
AcceptBid(w, F, bid) ==
    LET contractID == <<"contract", bid.TaskID, bid.AgentID>>
        contract == [ContractID |-> contractID, TaskID |-> bid.TaskID,
                     DelegatorID |-> SelfID, DelegateeID |-> bid.AgentID,
                     Status |-> "active"]
        c == storeData(w, F, "Contracts", contractID, "terms", contract)
    IN  IF c.err THEN Err(c.w)
        ELSE LET g == GetTask(c.w, F, bid.TaskID)
             IN  IF g.err THEN Err(g.w)
                 ELSE LET u == UpdateTask(g.w, F, [g.data EXCEPT !.DelegateeID = bid.AgentID,
                                                                 !.Status = "assigned"])
                      IN  IF u.err THEN Err(u.w) ELSE Ok(Collab(u.w))

\* ------------------------------------------------------------------ engine: reputation

\* Scores are in hundredths (1.0 = 100).
ReputationRecord(agentID, taskID, outcome, quality, timeliness, cost, safety) ==
    [AgentID |-> agentID, TaskID |-> taskID, Outcome |-> outcome,
     QualityScore |-> quality, TimelinessScore |-> timeliness,
     CostAdherence |-> cost, SafetyCompliance |-> safety,
     DelegatorID |-> SelfID, RecordedAt |-> 0]

\* Engine.RecordReputation: the key is "<taskID>_<RecordedAt>".
RecordReputation(w, F, record0) ==
    LET record == [record0 EXCEPT !.RecordedAt = now]
    IN  storeData(w, F, "Reputation", record.AgentID,
                  <<record.TaskID, record.RecordedAt>>, record)

\* The aspect "history"; the aspect of a record is the pair of its task and its
\* time ("<taskID>_<RecordedAt>"), which is never this one.
HistoryAspect == <<"history">>

\* Engine.GetReputationHistory: the list stored under the aspect "history".
GetReputationHistory(w, F, agentID) ==
    retrieveData(w, F, "Reputation", agentID, HistoryAspect)

\* The clock counts units of 15 days, so the 30 days of the weight are
\* HalfLife units.
HalfLife == 2
\* Weights are kept as integers: WeightScale times the weight of the code.
WeightScale == 60

mWeightFlat(age) == WeightScale

\* weight := 1.0 / (1.0 + age/30.0), times WeightScale; exact while
\* HalfLife + age divides HalfLife * WeightScale.  The caller handles
\* HalfLife + age = 0, where the code divides by zero.
Weight(age) == (HalfLife * WeightScale) \div (HalfLife + age)

\* (Quality + Timeliness + Cost + Safety), four times the score of the code.
Score4(rec) ==
    rec.QualityScore + rec.TimelinessScore + rec.CostAdherence + rec.SafetyCompliance

RECURSIVE WeightedSum(_, _, _)
WeightedSum(records, t, i) ==
    IF i > Len(records) THEN 0
    ELSE Score4(records[i]) * Weight(t - records[i].RecordedAt)
             + WeightedSum(records, t, i + 1)

RECURSIVE TotalWeight(_, _, _)
TotalWeight(records, t, i) ==
    IF i > Len(records) THEN 0
    ELSE Weight(t - records[i].RecordedAt) + TotalWeight(records, t, i + 1)

\* A float64 result: num/den hundredths with den > 0, or NaN.
Value(num, den) ==
    IF den < 0 THEN [nan |-> FALSE, num |-> -num, den |-> -den]
    ELSE [nan |-> FALSE, num |-> num, den |-> den]
NaN == [nan |-> TRUE, num |-> 0, den |-> 1]
Neutral == Value(50, 1)

\* Engine.ComputeTrustScore at clock reading t.  A record exactly HalfLife
\* ahead of the clock has weight 1/0 = +Inf: the sums become +Inf or NaN and
\* their quotient is NaN.
ComputeTrustScore(w, F, agentID, t) ==
    LET h == GetReputationHistory(w, F, agentID)
        records == h.data
    IN  IF h.err \/ Len(records) = 0
        THEN [w |-> h.w, err |-> h.err, score |-> Neutral]
        ELSE IF \E i \in 1..Len(records) : HalfLife + (t - records[i].RecordedAt) = 0
             THEN [w |-> h.w, err |-> FALSE, score |-> NaN]
             ELSE LET weightedSum == WeightedSum(records, t, 1)
                      totalWeight == TotalWeight(records, t, 1)
                  IN  IF totalWeight = 0
                      THEN [w |-> h.w, err |-> FALSE, score |-> Neutral]
                      ELSE [w |-> h.w, err |-> FALSE,
                            score |-> Value(weightedSum, 4 * totalWeight)]

\* ------------------------------------------------------------------ engine: adaptive coordination

\* A plausible slip: the delegatee is left on the re-published task.
mReDelegateKeepsDelegatee(w, F, task0) ==
    LET r == IF task0.DelegateeID # ""
             THEN RecordReputation(w, F,
                      ReputationRecord(task0.DelegateeID, task0.TaskID, "failure", 0, 0, 0, 0)).w
             ELSE w
        task == [task0 EXCEPT !.Status = "re_allocating"]
        u == UpdateTask(r, F, task)
    IN  IF u.err THEN Err(u.w) ELSE PublishTaskForBidding(u.w, F, task)

\* Engine.reDelegate: the error of RecordReputation is dropped.
reDelegate(w, F, task0) ==
    LET r == IF task0.DelegateeID # ""
             THEN RecordReputation(w, F,
                      ReputationRecord(task0.DelegateeID, task0.TaskID, "failure", 0, 0, 0, 0)).w
             ELSE w
        task == [task0 EXCEPT !.DelegateeID = "", !.Status = "re_allocating"]
        u == UpdateTask(r, F, task)
    IN  IF u.err THEN Err(u.w) ELSE PublishTaskForBidding(u.w, F, task)

\* MaxBudget *= 1.2 on budgets that are multiples of 5.
ExtendBudget(budget) == (budget * 6) \div 5

\* A plausible slip: urgency is tested before reversibility, so an urgent
\* trigger re-delegates whatever the task.
mEvaluateUrgentFirst(w, F, task, trigger) ==
    IF trigger.Urgent THEN reDelegate(w, F, task)
    ELSE CASE trigger.Type = "budget_overrun" ->
                  UpdateTask(w, F, [task EXCEPT !.MaxBudget = ExtendBudget(@)])
           [] trigger.Type \in {"performance_degradation", "agent_unresponsive"} ->
                  reDelegate(w, F, task)
           [] trigger.Type = "verification_failure" ->
                  UpdateTask(w, F, [task EXCEPT !.Status = "re_allocating"])
           [] OTHER -> Ok(w)

\* A plausible slip: the extension is a quarter, not a fifth.
mEvaluateQuarterExtension(w, F, task, trigger) ==
    IF ~task.Reversible /\ trigger.Urgent
    THEN UpdateTask(w, F, [task EXCEPT !.Status = "cancelled"])
    ELSE IF trigger.Urgent THEN reDelegate(w, F, task)
    ELSE CASE trigger.Type = "budget_overrun" ->
                  UpdateTask(w, F, [task EXCEPT !.MaxBudget = (@ * 5) \div 4])
           [] trigger.Type \in {"performance_degradation", "agent_unresponsive"} ->
                  reDelegate(w, F, task)
           [] trigger.Type = "verification_failure" ->
                  UpdateTask(w, F, [task EXCEPT !.Status = "re_allocating"])
           [] OTHER -> Ok(w)

\* A plausible slip: a failed verification re-delegates like a performance drop.
mEvaluateVerifyFailRedelegates(w, F, task, trigger) ==
    IF ~task.Reversible /\ trigger.Urgent
    THEN UpdateTask(w, F, [task EXCEPT !.Status = "cancelled"])
    ELSE IF trigger.Urgent THEN reDelegate(w, F, task)
    ELSE CASE trigger.Type = "budget_overrun" ->
                  UpdateTask(w, F, [task EXCEPT !.MaxBudget = ExtendBudget(@)])
           [] trigger.Type \in {"performance_degradation", "agent_unresponsive",
                                "verification_failure"} ->
                  reDelegate(w, F, task)
           [] OTHER -> Ok(w)

\* A plausible slip: an unknown trigger type marks the task for re-allocation.
mEvaluateDefaultReallocates(w, F, task, trigger) ==
    IF ~task.Reversible /\ trigger.Urgent
    THEN UpdateTask(w, F, [task EXCEPT !.Status = "cancelled"])
    ELSE IF trigger.Urgent THEN reDelegate(w, F, task)
    ELSE CASE trigger.Type = "budget_overrun" ->
                  UpdateTask(w, F, [task EXCEPT !.MaxBudget = ExtendBudget(@)])
           [] trigger.Type \in {"performance_degradation", "agent_unresponsive"} ->
                  reDelegate(w, F, task)
           [] OTHER -> UpdateTask(w, F, [task EXCEPT !.Status = "re_allocating"])

\* Engine.evaluateAndRespond
evaluateAndRespond(w, F, task, trigger) ==
    IF ~task.Reversible /\ trigger.Urgent
    THEN UpdateTask(w, F, [task EXCEPT !.Status = "cancelled"])
    ELSE IF trigger.Urgent THEN reDelegate(w, F, task)
    ELSE CASE trigger.Type = "budget_overrun" ->
                  UpdateTask(w, F, [task EXCEPT !.MaxBudget = ExtendBudget(@)])
           [] trigger.Type \in {"performance_degradation", "agent_unresponsive"} ->
                  reDelegate(w, F, task)
           [] trigger.Type = "verification_failure" ->
                  UpdateTask(w, F, [task EXCEPT !.Status = "re_allocating"])
           [] OTHER -> Ok(w)

\* Engine.RaiseTrigger: the trigger is stamped with the clock and stored under
\* the key of its task and its TriggerID.
RaiseTrigger(w, F, trigger0) ==
    LET trigger == [Timestamp |-> now] @@ trigger0
        st == storeData(w, F, "Triggers", trigger.TaskID, trigger.TriggerID, trigger)
    IN  IF st.err THEN Err(st.w)
        ELSE LET g == GetTask(st.w, F, trigger.TaskID)
             IN  IF g.err THEN Err(g.w)
                 ELSE evaluateAndRespond(g.w, F, g.data, trigger)

\* ------------------------------------------------------------------ engine: verification

\* Engine.SubmitForVerification
SubmitForVerification(w, F, taskID, artifact) ==
    LET g == GetTask(w, F, taskID)
    IN  IF g.err THEN Err(g.w)
        ELSE LET u == UpdateTask(g.w, F, [g.data EXCEPT !.Status = "verifying"])
             IN  IF u.err THEN Err(u.w)
                 ELSE storeData(u.w, F, "Tasks", taskID, "result_artifact", artifact)

\* Engine.RecordVerification: the errors of RecordReputation and RaiseTrigger
\* are dropped, and the task read before them is what the last line stores.
RecordVerification(w, F, result) ==
    LET st == storeData(w, F, "Tasks", result.TaskID, "verification", result)
    IN  IF st.err THEN Err(st.w)
        ELSE LET g == GetTask(st.w, F, result.TaskID)
             IN  IF g.err THEN Err(g.w)
                 ELSE IF result.Passed
                      THEN UpdateTask(
                               RecordReputation(g.w, F,
                                   ReputationRecord(g.data.DelegateeID, g.data.TaskID,
                                                    "success", result.Score, 100, 100, 100)).w,
                               F, [g.data EXCEPT !.Status = "verified"])
                      ELSE UpdateTask(
                               RaiseTrigger(g.w, F,
                                   [TriggerID |-> <<"verfail", result.TaskID>>,
                                    TaskID |-> result.TaskID,
                                    Type |-> "verification_failure",
                                    AgentID |-> g.data.DelegateeID,
                                    Urgent |-> g.data.Criticality = "critical"]).w,
                               F, [g.data EXCEPT !.Status = "failed"])

\* ------------------------------------------------------------------ engine: calls

InitialBudget == 625
TaskIDs == {"t1", "t2", "t3"}
RootID == "t1"
KidIDs == {"t2", "t3"}
Bidders == Agents
\* The four internal trigger types and one of the external ones, which the
\* engine does not tell apart.
TriggerTypes ==
    {"security_alert", "performance_degradation", "budget_overrun",
     "verification_failure", "agent_unresponsive"}
TerminalStatuses == {"completed", "verified", "cancelled"}

\* A TaskSpec as a caller builds it: no status, no delegatee, no sub-tasks.
NewTask(id, reversible, criticality, verifiability, isLeaf) ==
    [TaskID |-> id, ParentTaskID |-> "", DelegatorID |-> SelfID, DelegateeID |-> "",
     Status |-> "", Criticality |-> criticality, MaxBudget |-> InitialBudget,
     Reversible |-> reversible, Verifiability |-> verifiability,
     SubTaskIDs |-> <<>>, IsLeaf |-> isLeaf]

NoFaults == { {} }
\* At most one collaborator call of a handler run fails.
Faults == NoFaults \cup { {k} : k \in 1..MaxCalls }

Stored(taskID) == <<taskID, "spec">> \in DOMAIN tasks
TaskOf(taskID) == tasks[<<taskID, "spec">>]

RECURSIVE BudgetAfter(_)
BudgetAfter(k) == IF k = 0 THEN InitialBudget ELSE ExtendBudget(BudgetAfter(k - 1))

\* The stores after a handler run that ended in r.
Commit(r) ==
    /\ tasks' = r.w.Tasks
    /\ rep' = r.w.Reputation
    /\ triggers' = r.w.Triggers
    /\ contracts' = r.w.Contracts

\* A collaborator call of the run that ended in r was made and failed.
CollaboratorFailed(r, F) == \E k \in F : k <= r.w.calls

Returned(r, F, call) ==
    /\ ops < MaxOps
    /\ ops' = ops + 1
    /\ ret' = [call EXCEPT !.err = r.err, !.pub = r.w.pub,
                           !.failed = CollaboratorFailed(r, F)]

CreateTaskCall(FS, Inputs) ==
    \E F \in FS, task \in Inputs :
        LET r == CreateTask(World, F, task)
        IN  /\ Commit(r)
            /\ Returned(r, F, [NoRet EXCEPT !.op = "CreateTask", !.task = task.TaskID])
            /\ UNCHANGED <<now>>

DecomposeTaskCall(FS, Parents, Lists) ==
    \E F \in FS, parentID \in Parents, subTasks \in Lists :
        LET r == DecomposeTask(World, F, parentID, subTasks)
        IN  /\ Commit(r)
            /\ Returned(r, F, [NoRet EXCEPT !.op = "DecomposeTask", !.task = parentID,
                                         !.subTasks = subTasks])
            /\ UNCHANGED <<now>>

\* The caller publishes the task as it last read it from the store.
PublishCall(FS, IDs) ==
    \E F \in FS, taskID \in IDs :
        /\ Stored(taskID)
        /\ LET r == PublishTaskForBidding(World, F, TaskOf(taskID))
           IN  /\ Commit(r)
               /\ Returned(r, F, [NoRet EXCEPT !.op = "PublishTaskForBidding", !.task = taskID])
        /\ UNCHANGED <<now>>

AcceptBidCall(FS, IDs) ==
    \E F \in FS, taskID \in IDs, agentID \in Bidders :
        LET r == AcceptBid(World, F, [TaskID |-> taskID, AgentID |-> agentID])
        IN  /\ Commit(r)
            /\ Returned(r, F, [NoRet EXCEPT !.op = "AcceptBid", !.task = taskID,
                                         !.agent = agentID])
            /\ UNCHANGED <<now>>

\* Execution proceeds outside the engine: the delegatee's host moves an
\* assigned task to in_progress, checkpoint and completed through UpdateTask.
HostProgress(FS, IDs) ==
    \E F \in FS, taskID \in IDs, status \in {"in_progress", "checkpoint", "completed"} :
        /\ Stored(taskID)
        /\ <<TaskOf(taskID).Status, status>> \in
              { <<"assigned", "in_progress">>, <<"in_progress", "checkpoint">>,
                <<"checkpoint", "in_progress">>, <<"in_progress", "completed">> }
        /\ LET r == UpdateTask(World, F, [TaskOf(taskID) EXCEPT !.Status = status])
           IN  /\ Commit(r)
               /\ Returned(r, F, [NoRet EXCEPT !.op = "UpdateTask", !.task = taskID])
        /\ UNCHANGED <<now>>

SubmitForVerificationCall(FS, IDs) ==
    \E F \in FS, taskID \in IDs :
        LET r == SubmitForVerification(World, F, taskID, "artifact")
        IN  /\ Commit(r)
            /\ Returned(r, F, [NoRet EXCEPT !.op = "SubmitForVerification", !.task = taskID])
            /\ UNCHANGED <<now>>

RecordVerificationCall(FS, IDs) ==
    \E F \in FS, taskID \in IDs, passed \in BOOLEAN :
        LET r == RecordVerification(World, F,
                     [TaskID |-> taskID, Passed |-> passed, Score |-> 92])
        IN  /\ Commit(r)
            /\ Returned(r, F, [NoRet EXCEPT !.op = "RecordVerification", !.task = taskID,
                                         !.passed = passed])
            /\ UNCHANGED <<now>>

\* A budget extension is taken only while the budget stays exact and within
\* MaxExtensions.
BudgetBounded(taskID, type, urgent) ==
    (Stored(taskID) /\ type = "budget_overrun" /\ ~urgent)
        => \E k \in 0..(MaxExtensions - 1) : TaskOf(taskID).MaxBudget = BudgetAfter(k)

RaiseTriggerCall(FS, IDs) ==
    \E F \in FS, taskID \in IDs, type \in TriggerTypes, urgent \in BOOLEAN :
        /\ BudgetBounded(taskID, type, urgent)
        /\ LET r == RaiseTrigger(World, F,
                        [TriggerID |-> <<"trigger", "1">>, TaskID |-> taskID, Type |-> type,
                         AgentID |-> "", Urgent |-> urgent])
           IN  /\ Commit(r)
               /\ Returned(r, F, [NoRet EXCEPT !.op = "RaiseTrigger", !.task = taskID,
                                            !.type = type, !.urgent = urgent])
        /\ UNCHANGED <<now>>

EngineTick ==
    /\ now < MaxEngineTime
    /\ now' = now + 1
    /\ ret' = NoRet
    /\ UNCHANGED <<tasks, rep, triggers, contracts, ops>>

\* Inputs of the lifecycle specification: one root task, one possible sub-task.
RootTasks ==
    { NewTask(RootID, reversible, criticality, 50, TRUE) :
          reversible \in BOOLEAN, criticality \in {"low", "critical"} }
OneChildLists == { << NewTask("t2", TRUE, "low", 50, FALSE) >> }

Next ==
    \/ CreateTaskCall(NoFaults, RootTasks) /\ UNCHANGED <<dctVars, cbVars, marketVars, callVars>>
    \/ DecomposeTaskCall(NoFaults, {RootID}, OneChildLists) /\ UNCHANGED <<dctVars, cbVars, marketVars, callVars>>
    \/ PublishCall(NoFaults, {RootID}) /\ UNCHANGED <<dctVars, cbVars, marketVars, callVars>>
    \/ AcceptBidCall(NoFaults, {RootID}) /\ UNCHANGED <<dctVars, cbVars, marketVars, callVars>>
    \/ HostProgress(NoFaults, {RootID}) /\ UNCHANGED <<dctVars, cbVars, marketVars, callVars>>
    \/ SubmitForVerificationCall(NoFaults, {RootID}) /\ UNCHANGED <<dctVars, cbVars, marketVars, callVars>>
    \/ RecordVerificationCall(NoFaults, {RootID}) /\ UNCHANGED <<dctVars, cbVars, marketVars, callVars>>
    \/ RaiseTriggerCall(NoFaults, {RootID}) /\ UNCHANGED <<dctVars, cbVars, marketVars, callVars>>
    \/ EngineTick /\ UNCHANGED <<dctVars, cbVars, marketVars, callVars>>

\* The lifecycle of one task under every handler of the engine.
Spec == Init /\ [][Next]_vars

FaultyNext ==
    \/ ops < MaxFaultyOps /\ CreateTaskCall(Faults, RootTasks)
          /\ UNCHANGED <<dctVars, cbVars, marketVars, callVars>>
    \/ ops < MaxFaultyOps /\ AcceptBidCall(Faults, {RootID})
          /\ UNCHANGED <<dctVars, cbVars, marketVars, callVars>>
    \/ ops < MaxFaultyOps /\ RecordVerificationCall(Faults, {RootID})
          /\ UNCHANGED <<dctVars, cbVars, marketVars, callVars>>
    \/ ops < MaxFaultyOps /\ RaiseTriggerCall(Faults, {RootID})
          /\ UNCHANGED <<dctVars, cbVars, marketVars, callVars>>

\* Creation, assignment, verification and triggers with collaborators that
\* may fail.
SpecFaulty == Init /\ [][FaultyNext]_vars

\* Inputs of the reputation specification.
TrustAgents == {"agent-a"}
Scores == {0, 100}
Stamps == 0..MaxStamp
HistoryRecords ==
    { [ReputationRecord(agentID, RootID, "success", sc, sc, sc, sc)
           EXCEPT !.RecordedAt = stamp] :
          agentID \in TrustAgents, sc \in Scores, stamp \in Stamps }
HistoryLists == UNION { [1..n -> HistoryRecords] : n \in 0..MaxHistory }

RecordReputationCall(FS, AgentIDs) ==
    \E F \in FS, agentID \in AgentIDs, sc \in Scores :
        LET r == RecordReputation(World, F,
                     ReputationRecord(agentID, RootID, "success", sc, sc, sc, sc))
        IN  /\ Commit(r)
            /\ Returned(r, F, [NoRet EXCEPT !.op = "RecordReputation", !.agent = agentID,
                                         !.task = RootID])
            /\ UNCHANGED <<now>>

ComputeTrustScoreCall(FS, AgentIDs) ==
    \E F \in FS, agentID \in AgentIDs :
        LET r == ComputeTrustScore(World, F, agentID, now)
        IN  /\ Commit(r)
            /\ Returned(r, F, [NoRet EXCEPT !.op = "ComputeTrustScore", !.agent = agentID,
                                         !.score = r.score])
            /\ UNCHANGED <<now>>

\* Another writer of the shared store posts the aspect "history" of an agent,
\* once; the engine has no code that writes it.
PostHistory(AgentIDs) ==
    \E agentID \in AgentIDs, records \in HistoryLists :
        /\ <<agentID, HistoryAspect>> \notin DOMAIN rep
        /\ \A i \in 1..Len(records) : records[i].AgentID = agentID
        /\ rep' = Put(rep, <<agentID, HistoryAspect>>, records)
        /\ ret' = NoRet
        /\ UNCHANGED <<now, tasks, triggers, contracts, ops>>

\* One clock unit (15 days) passes.
TrustTick ==
    /\ now < MaxTrustTime
    /\ now' = now + 1
    /\ ret' = NoRet
    /\ UNCHANGED <<tasks, rep, triggers, contracts, ops>>

TrustNext ==
    \/ RecordReputationCall(NoFaults, TrustAgents) /\ UNCHANGED <<dctVars, cbVars, marketVars, callVars>>
    \/ ComputeTrustScoreCall(NoFaults, TrustAgents) /\ UNCHANGED <<dctVars, cbVars, marketVars, callVars>>
    \/ TrustTick /\ UNCHANGED <<dctVars, cbVars, marketVars, callVars>>

\* The reputation ledger as the engine writes it, and the trust score.
SpecTrust == Init /\ [][TrustNext]_vars

HistoryNext ==
    \/ PostHistory(TrustAgents) /\ UNCHANGED <<dctVars, cbVars, marketVars, callVars>>
    \/ ComputeTrustScoreCall(NoFaults, TrustAgents) /\ UNCHANGED <<dctVars, cbVars, marketVars, callVars>>
    \/ TrustTick /\ UNCHANGED <<dctVars, cbVars, marketVars, callVars>>

\* The trust score computed from a history found in the store.
SpecHistory == Init /\ [][HistoryNext]_vars

\* Inputs of the decomposition specification: sub-tasks of either verifiability
\* and leafness, in lists of up to MaxChildren.
KidSpecs ==
    { [NewTask(id, TRUE, "low", k[1], k[2]) EXCEPT !.DelegatorID = ""] :
          id \in KidIDs, k \in {<<50, FALSE>>, <<10, FALSE>>, <<10, TRUE>>} }
ChildLists ==
    UNION { [1..n -> KidSpecs] : n \in 1..MaxChildren }

\* The root is created as a leaf.
ParentTasks == { NewTask(RootID, TRUE, "low", 50, TRUE) }

DecomposeNext ==
    \/ ops < MaxDecomposeOps /\ CreateTaskCall(NoFaults, ParentTasks)
          /\ UNCHANGED <<dctVars, cbVars, marketVars, callVars>>
    \/ ops < MaxDecomposeOps /\ DecomposeTaskCall(NoFaults, {RootID, "t2"}, ChildLists)
          /\ UNCHANGED <<dctVars, cbVars, marketVars, callVars>>

\* Task creation and decomposition.
SpecDecompose == Init /\ [][DecomposeNext]_vars

\* ------------------------------------------------------------------ market: RankBids

\* Weights and scores are in hundredths (0.20 = 20, 1.0 = 100); a total is
\* in ten-thousandths.
DefaultWeights == [Cost |-> 20, Speed |-> 15, Trust |-> 30, Confidence |-> 15, CapMatch |-> 20]

Min(S) == CHOOSE x \in S : \A y \in S : x <= y
Max(S) == CHOOSE x \in S : \A y \in S : x >= y

\* A map read, agentTrust[id] or agentCaps[id]: the zero value when the key is
\* absent.
MapGet(map, key, zero) == IF key \in DOMAIN map THEN map[key] ELSE zero

\* capabilityMatchScore
capabilityMatchScore(required, offered) ==
    IF Len(required) = 0 THEN 100
    ELSE LET matched == Cardinality({ i \in 1..Len(required) :
                                        \E j \in 1..Len(offered) : offered[j] = required[i] })
         IN  (100 * matched) \div Len(required)

\* The scoring loop of RankBids: scored[i] for every bid, in input order.
\* maxCost and maxTime start from 0, minCost and minTime from the largest
\* value of their type.
ScoreBids(bids, weights, agentTrust, requiredCaps, agentCaps) ==
    LET costs == { bids[i].EstimatedCost : i \in 1..Len(bids) }
        times == { bids[i].EstimatedTime : i \in 1..Len(bids) }
        minCost == Min(costs)
        maxCost == Max(costs \cup {0})
        minTime == Min(times)
        maxTime == Max(times \cup {0})
    IN  [i \in 1..Len(bids) |->
            LET bid == bids[i]
                costScore == IF maxCost > minCost
                             THEN 100 - (100 * (bid.EstimatedCost - minCost))
                                            \div (maxCost - minCost)
                             ELSE 100
                speedScore == IF maxTime > minTime
                              THEN 100 - (100 * (bid.EstimatedTime - minTime))
                                             \div (maxTime - minTime)
                              ELSE 100
                trust == MapGet(agentTrust, bid.AgentID, 0)
                capScore == capabilityMatchScore(requiredCaps,
                                                 MapGet(agentCaps, bid.AgentID, <<>>))
                total == weights.Cost * costScore + weights.Speed * speedScore
                             + weights.Trust * trust
                             + weights.Confidence * bid.Confidence
                             + weights.CapMatch * capScore
            IN  [Bid |-> bid, Score |-> total, CostScore |-> costScore,
                 SpeedScore |-> speedScore, TrustScore |-> trust,
                 ConfidenceScore |-> bid.Confidence, CapMatchScore |-> capScore]]

\* The permutations of 1..n.
Perms(n) == { p \in [1..n -> 1..n] : \A i, j \in 1..n : p[i] = p[j] => i = j }

\* sort.Slice(scored, Score descending): every rearrangement of scored that is
\* ordered by the comparison; sort.Slice does not promise to keep equal
\* elements in their order.
SortSlice(scored) ==
    { [i \in 1..Len(scored) |-> scored[p[i]]] : p \in
          { q \in Perms(Len(scored)) :
                \A i \in 1..(Len(scored) - 1) :
                    ~(scored[q[i + 1]].Score > scored[q[i]].Score) } }

mRankBidsUnsorted(bids, weights, agentTrust, requiredCaps, agentCaps) ==
    { ScoreBids(bids, weights, agentTrust, requiredCaps, agentCaps) }

\* RankBids: the results the call can return.
RankBids(bids, weights, agentTrust, requiredCaps, agentCaps) ==
    IF Len(bids) = 0 THEN { <<>> }
    ELSE SortSlice(ScoreBids(bids, weights, agentTrust, requiredCaps, agentCaps))

\* Inputs of the ranking specification.  The bid at position i has BidID i.
\* Estimated costs are float64 values of either sign.
Costs == {-20, -10, 20}
Times == {60, 120}
Confidences == {80}
BidsOfLen(n) ==
    { [i \in 1..n |-> [BidID |-> i, AgentID |-> b[i][1], EstimatedCost |-> b[i][2],
                       EstimatedTime |-> b[i][3], Confidence |-> b[i][4]]] :
          b \in [1..n -> Agents \X Costs \X Times \X Confidences] }
\* Trust maps with both agents, one agent and no agent.
TrustMaps ==
    { [a \in Agents |-> IF a = "agent-a" THEN 90 ELSE 40],
      [a \in Agents |-> 40],
      [a \in {"agent-a"} |-> 90],
      <<>> }
\* No capability required, one, and a list that names one of two three times.
RequiredCapLists == { <<>>, <<"go">>, <<"go", "go", "go", "sql">> }
\* agent-a offers one capability (listed twice), agent-b has no entry.
AgentCaps == [a \in {"agent-a"} |-> <<"go", "go">>]

RankBidsCall ==
    /\ rank = NoRank
    /\ \E n \in 0..MaxBids :
       \E bids \in BidsOfLen(n), agentTrust \in TrustMaps, requiredCaps \in RequiredCapLists :
          \E out \in RankBids(bids, DefaultWeights, agentTrust, requiredCaps, AgentCaps) :
              rank' = [op |-> "RankBids", bids |-> bids, agentTrust |-> agentTrust,
                       requiredCaps |-> requiredCaps, out |-> out]

MarketNext ==
    RankBidsCall /\ UNCHANGED <<now, dctVars, engineVars, cbVars, callVars>>

\* One call of RankBids.
SpecMarket == Init /\ [][MarketNext]_vars

\* ------------------------------------------------------------------ engine: calls in progress

\* No lock is taken anywhere in the engine: between the store calls of one
\* handler the store calls of another may run. A call in progress is at its
\* first store write ("idle" before it), at its GetTask ("read"), or at the
\* writes that follow the GetTask ("write"); these are taken in one step.
CallOps == {"budget_overrun", "performance_degradation", "AcceptBid"}

NoneInflight == \A c \in Callers : inflight[c].pc = "idle"
AllReturned == \A c \in Callers : inflight[c].pc = "done"

TriggerOf(c, type) ==
    [TriggerID |-> <<"trigger", c>>, TaskID |-> RootID, Type |-> type,
     AgentID |-> "", Urgent |-> FALSE, Timestamp |-> now]

ContractOf(bid) ==
    [ContractID |-> <<"contract", bid.TaskID, bid.AgentID>>, TaskID |-> bid.TaskID,
     DelegatorID |-> SelfID, DelegateeID |-> bid.AgentID, Status |-> "active"]

\* RaiseTrigger up to its storeData, AcceptBid up to its storeData.
Begin(c) ==
    /\ inflight[c].pc = "idle"
    /\ Stored(RootID)
    /\ \E op \in CallOps, agentID \in Bidders :
          LET bid == [TaskID |-> RootID, AgentID |-> agentID]
              st == IF op = "AcceptBid"
                    THEN storeData(World, {}, "Contracts", ContractOf(bid).ContractID,
                                   "terms", ContractOf(bid))
                    ELSE storeData(World, {}, "Triggers", RootID, <<"trigger", c>>,
                                   TriggerOf(c, op))
          IN  /\ Commit(st)
              /\ inflight' = [inflight EXCEPT ![c] =
                                 [pc |-> "read", op |-> op,
                                  agent |-> IF op = "AcceptBid" THEN agentID ELSE "",
                                  task |-> [TaskID |-> ""]]]
    /\ base' = IF NoneInflight THEN tasks ELSE base
    /\ UNCHANGED <<now, ret, ops>>

\* task, err := e.GetTask(...)
Read(c) ==
    /\ inflight[c].pc = "read"
    /\ LET g == GetTask(World, {}, RootID)
       IN  inflight' = [inflight EXCEPT ![c].pc = IF g.err THEN "done" ELSE "write",
                                        ![c].task = g.data]
    /\ UNCHANGED <<now, engineVars, base>>

\* The rest of the handler: evaluateAndRespond on the copy, or AcceptBid's
\* UpdateTask of the copy with the delegatee.
Respond(c) ==
    /\ inflight[c].pc = "write"
    /\ LET call == inflight[c]
           r == IF call.op = "AcceptBid"
                THEN UpdateTask(World, {}, [call.task EXCEPT !.DelegateeID = call.agent,
                                                             !.Status = "assigned"])
                ELSE evaluateAndRespond(World, {}, call.task, TriggerOf(c, call.op))
       IN  Commit(r)
    /\ inflight' = [inflight EXCEPT ![c].pc = "done"]
    /\ UNCHANGED <<now, ret, ops, base>>

ConcurrentNext ==
    \/ NoneInflight /\ CreateTaskCall(NoFaults, RootTasks)
          /\ UNCHANGED <<dctVars, cbVars, marketVars, callVars>>
    \/ NoneInflight /\ AcceptBidCall(NoFaults, {RootID})
          /\ UNCHANGED <<dctVars, cbVars, marketVars, callVars>>
    \/ \E c \in Callers : Begin(c) /\ UNCHANGED <<dctVars, cbVars, marketVars>>
    \/ \E c \in Callers : Read(c) /\ UNCHANGED <<dctVars, cbVars, marketVars>>
    \/ \E c \in Callers : Respond(c) /\ UNCHANGED <<dctVars, cbVars, marketVars>>

\* Two calls on one task without a lock between them.
SpecConcurrent == Init /\ [][ConcurrentNext]_vars

\* ------------------------------------------------------------------ claims: DCT

IsPrefix(p, s) == Len(p) <= Len(s) /\ SubSeq(s, 1, Len(p)) = p

RECURSIVE IsAncestor(_, _, _)
IsAncestor(toks, a, i) ==
    /\ toks[i].parent # 0
    /\ \/ toks[i].parent = a
       \/ IsAncestor(toks, a, toks[i].parent)

CaveatsOfType(d, type) == { k \in 1..Len(d.Caveats) : d.Caveats[k].Type = type }

\* C5: monotonic restriction. After every step each token's caveat list has the
\* caveat list of each of its ancestors as a prefix; a successful Attenuate gives
\* the child exactly the parent's caveats followed by the additional ones; and no
\* step changes the caveat list of an existing token.
C5_MonotonicRestriction ==
    [][ /\ \A i \in 1..Len(tokens') : \A a \in 1..Len(tokens') :
              IsAncestor(tokens', a, i) =>
                  IsPrefix(tokens'[a].d.Caveats, tokens'[i].d.Caveats)
        /\ (dres'.op = "Attenuate" /\ dres'.err = Nil) =>
              /\ Len(tokens') = Len(tokens) + 1
              /\ tokens'[dres'.child].parent = dres'.tok
              /\ tokens'[dres'.child].d.Caveats =
                     tokens[dres'.tok].d.Caveats \o dres'.caveats
        /\ \A i \in 1..Len(tokens) :
              /\ i <= Len(tokens')
              /\ tokens'[i].d.Caveats = tokens[i].d.Caveats
      ]_vars

\* C5 witness: a grandchild token whose parent and grandparent both carry
\* caveats and which added one of its own.
C5_Witness ==
    \E i \in 1..Len(tokens) :
        /\ tokens[i].parent # 0
        /\ tokens[tokens[i].parent].parent # 0
        /\ Len(tokens[tokens[tokens[i].parent].parent].d.Caveats) > 0
        /\ Len(tokens[tokens[i].parent].d.Caveats)
              > Len(tokens[tokens[tokens[i].parent].parent].d.Caveats)
        /\ Len(tokens[i].d.Caveats) > Len(tokens[tokens[i].parent].d.Caveats)

\* C6: Attenuate called on a token that is revoked, or whose expiry lies before
\* the time of the call, returns an error and creates no token.
C6_AttenuateFailsClosed ==
    [][ ( /\ dres'.op = "Attenuate"
          /\ \/ tokens[dres'.tok].d.Revoked
             \/ now > tokens[dres'.tok].d.ExpiresAt )
        => ( dres'.err # Nil /\ dres'.child = 0 /\ tokens' = tokens )
      ]_vars

\* C6 witness: Attenuate with additional caveats was refused on an expired,
\* unrevoked token.
C6_Witness ==
    /\ dres.op = "Attenuate"
    /\ dres.err # Nil
    /\ dres.caveats # <<>>
    /\ ~tokens[dres.tok].d.Revoked
    /\ dres.t > tokens[dres.tok].d.ExpiresAt

\* C7: a child token never expires later than the token it was attenuated from.
C7_ChildNeverOutlivesParent ==
    \A i \in 1..Len(tokens) :
        tokens[i].parent # 0 =>
            tokens[i].d.ExpiresAt <= tokens[tokens[i].parent].d.ExpiresAt

\* C8: ValidateAccess on a revoked or expired token returns an error, whatever
\* the operation, the scope and the caveats.
C8_ValidateFailsClosedOnState ==
    ( /\ dres.op = "ValidateAccess"
      /\ \/ tokens[dres.tok].d.Revoked
         \/ dres.t > tokens[dres.tok].d.ExpiresAt )
    => dres.err # Nil

\* C8 witness: an expired, unrevoked token without caveats was denied.
C8_Witness ==
    /\ dres.op = "ValidateAccess"
    /\ tokens[dres.tok].d.Caveats = <<>>
    /\ ~tokens[dres.tok].d.Revoked
    /\ dres.t > tokens[dres.tok].d.ExpiresAt
    /\ dres.err # Nil

\* C9: on a token that is neither revoked nor expired, ValidateAccess succeeds
\* exactly when every "operation" caveat passes the operation test and every
\* "scope" caveat is a prefix of the requested scope; caveats of other kinds do
\* not matter.
C9_CaveatsAreConjunctive ==
    ( /\ dres.op = "ValidateAccess"
      /\ ~tokens[dres.tok].d.Revoked
      /\ dres.t <= tokens[dres.tok].d.ExpiresAt )
    => LET d == tokens[dres.tok].d
       IN  (dres.err = Nil) <=>
              /\ \A k \in CaveatsOfType(d, "operation") :
                     StringsContains(d.Caveats[k].Value, dres.operation)
              /\ \A k \in CaveatsOfType(d, "scope") :
                     StringsHasPrefix(dres.scope, d.Caveats[k].Value)

\* C9 witness: access was granted by a token with two operation caveats and a
\* scope caveat.
C9_Witness ==
    /\ dres.op = "ValidateAccess"
    /\ dres.err = Nil
    /\ Cardinality(CaveatsOfType(tokens[dres.tok].d, "operation")) >= 2
    /\ Cardinality(CaveatsOfType(tokens[dres.tok].d, "scope")) >= 1

\* C10: ValidateAccess permits an operation only if it is one of the operations
\* listed, comma-separated, in every "operation" caveat of the token.
C10_OperationIsListed ==
    ( dres.op = "ValidateAccess" /\ dres.err = Nil )
    => \A k \in CaveatsOfType(tokens[dres.tok].d, "operation") :
           dres.operation \in ListedOperations(tokens[dres.tok].d.Caveats[k].Value)

\* ------------------------------------------------------------------ claims: engine

SpecKey(taskID) == <<taskID, "spec">>

\* A sub-task that DecomposeTask rejects.
Offending(sub) == sub.Verifiability < VerifiabilityFloor /\ ~sub.IsLeaf

\* C1: a DecomposeTask call whose list holds a sub-task with verifiability
\* under 0.3 that is not a leaf returns an error, persists no sub-task of the
\* call and leaves the parent record as it was.
C1_DecomposeRejectsAtomically ==
    [][ (ret'.op = "DecomposeTask"
            /\ \E i \in 1..Len(ret'.subTasks) : Offending(ret'.subTasks[i]))
        => (ret'.err /\ tasks' = tasks) ]_vars

\* C2: a response to an urgent trigger on an irreversible task cancels the
\* task and does nothing of a re-delegation: no reputation record, the
\* delegatee kept, no re-allocation, no publication. The same holds of the
\* trigger a failed verification raises on a critical irreversible task.
C2_UrgentIrreversibleNeverRedelegates ==
    [][ /\ (ret'.op = "RaiseTrigger" /\ ret'.urgent
               /\ Stored(ret'.task) /\ ~TaskOf(ret'.task).Reversible)
            => /\ ~ret'.err
               /\ tasks' = [tasks EXCEPT ![SpecKey(ret'.task)].Status = "cancelled"]
               /\ rep' = rep
               /\ ret'.pub = <<>>
        /\ (ret'.op = "RecordVerification" /\ ~ret'.passed
               /\ Stored(ret'.task) /\ ~TaskOf(ret'.task).Reversible
               /\ TaskOf(ret'.task).Criticality = "critical")
            => /\ tasks'[SpecKey(ret'.task)].DelegateeID = TaskOf(ret'.task).DelegateeID
               /\ tasks'[SpecKey(ret'.task)].Status \notin {"re_allocating", "bidding"}
               /\ rep' = rep
               /\ ret'.pub = <<>> ]_vars

\* An urgent performance trigger has just cancelled an irreversible task that
\* still names its delegatee.
C2_Witness ==
    /\ ret.op = "RaiseTrigger" /\ ret.urgent /\ ~ret.err
    /\ ret.type = "performance_degradation"
    /\ Stored(ret.task)
    /\ ~TaskOf(ret.task).Reversible
    /\ TaskOf(ret.task).Status = "cancelled"
    /\ TaskOf(ret.task).DelegateeID # ""

\* The handlers C3 lists for a terminal task.
ListedOps ==
    {"RaiseTrigger", "PublishTaskForBidding", "AcceptBid",
     "SubmitForVerification", "RecordVerification", "DecomposeTask"}

\* C3: once the stored status of a task is completed, verified or cancelled,
\* no trigger, publication, bid acceptance, submission, verification result or
\* decomposition changes it.
C3_TerminalStatusIsAbsorbing ==
    [][ \A id \in TaskIDs :
          (Stored(id) /\ TaskOf(id).Status \in TerminalStatuses /\ ret'.op \in ListedOps)
              => tasks'[SpecKey(id)].Status = TaskOf(id).Status ]_vars

NonTerminalStatuses ==
    {"pending", "decomposed", "bidding", "assigned", "in_progress", "checkpoint",
     "verifying", "failed", "re_allocating"}

\* The edges of the lifecycle, by the operation that takes them.
LifecycleEdges ==
    {<<"DecomposeTask", "pending", "decomposed">>,
     <<"AcceptBid", "bidding", "assigned">>,
     <<"UpdateTask", "assigned", "in_progress">>,
     <<"UpdateTask", "in_progress", "checkpoint">>,
     <<"UpdateTask", "checkpoint", "in_progress">>,
     <<"UpdateTask", "in_progress", "completed">>,
     <<"SubmitForVerification", "in_progress", "verifying">>,
     <<"SubmitForVerification", "checkpoint", "verifying">>,
     <<"RecordVerification", "verifying", "verified">>,
     <<"RecordVerification", "verifying", "failed">>}
      \cup { <<"PublishTaskForBidding", from, "bidding">> :
                 from \in {"pending", "decomposed", "re_allocating"} }
      \cup { <<"RaiseTrigger", from, to>> :
                 from \in NonTerminalStatuses, to \in {"re_allocating", "bidding", "cancelled"} }

\* The status an operation needs its task to be in.
RequiredStatus(op) ==
    CASE op = "DecomposeTask" -> {"pending"}
      [] op = "AcceptBid" -> {"bidding"}
      [] op = "SubmitForVerification" -> {"in_progress", "checkpoint"}
      [] op = "RecordVerification" -> {"verifying"}
      [] OTHER -> NonTerminalStatuses \cup TerminalStatuses

\* C4: the status of a stored task changes only along the edges of the
\* lifecycle, and an operation called on a task in another status than the
\* one it needs returns an error and changes no task.
C4_StatusFollowsLifecycle ==
    [][ \A id \in TaskIDs :
          (Stored(id) /\ ret'.op \notin {"none", "CreateTask"})
              => /\ tasks'[SpecKey(id)].Status # TaskOf(id).Status
                     => <<ret'.op, TaskOf(id).Status, tasks'[SpecKey(id)].Status>>
                            \in LifecycleEdges
                 /\ (ret'.task = id /\ TaskOf(id).Status \notin RequiredStatus(ret'.op))
                     => (ret'.err /\ tasks' = tasks) ]_vars

\* ------------------------------------------------------------------ claims: circuit breaker

\* A step of the constructed breaker made by the method op.
BreakerStep(op) == Constructed /\ cbres'.op = op

\* C11: with threshold n >= 1 a closed breaker stays closed, and allows, while
\* the failures since the last success are fewer than n; the n-th failure in a
\* row opens it at the current time, and an open breaker refuses every
\* IsAllowed until more than the cooldown has passed since it tripped.
C11_TripsAtThreshold ==
    [][ Constructed =>
          /\ (BreakerStep("RecordFailure") /\ cb.State = "closed"
                 /\ cb'.FailureCount < cb.FailureThreshold)
              => (cb'.State = "closed" /\ ~cbres'.result)
          /\ (BreakerStep("RecordFailure") /\ cb'.FailureCount >= cb.FailureThreshold)
              => (cb'.State = "open" /\ cb'.LastTripped = now)
          /\ (BreakerStep("IsAllowed") /\ cb.State = "closed") => cbres'.result
          /\ (BreakerStep("IsAllowed") /\ cb.State = "open"
                 /\ now - cb.LastTripped <= cb.CooldownPeriod)
              => (~cbres'.result /\ cb'.State = "open")
          /\ cb'.State = "closed" => cb'.FailureCount < cb'.FailureThreshold ]_vars

\* A breaker of threshold 2 that tripped on its second failure has refused a
\* call made later, within the cooldown.
C11_Witness ==
    /\ Constructed
    /\ cbres.op = "IsAllowed" /\ ~cbres.result
    /\ cb.State = "open"
    /\ cb.FailureThreshold = 2 /\ cb.FailureCount = 2
    /\ now > cb.LastTripped

\* C12: the first IsAllowed after the cooldown moves the breaker from open to
\* half-open and returns true, and an IsAllowed on a half-open breaker admits
\* no further probe.
C12_OneProbeOnly ==
    [][ /\ (BreakerStep("IsAllowed") /\ cb.State = "open"
               /\ now - cb.LastTripped > cb.CooldownPeriod)
            => (cbres'.result /\ cb'.State = "half_open")
        /\ (BreakerStep("IsAllowed") /\ cb.State = "half_open")
            => ~cbres'.result ]_vars

\* C13: an open or half-open breaker becomes closed only by RecordSuccess.
C13_NeverAutoCloses ==
    [][ (Constructed /\ cb.State \in {"open", "half_open"} /\ cb'.State = "closed")
            => cbres'.op = "RecordSuccess" ]_vars

\* A half-open breaker has been asked again and is still half-open.
C13_Witness ==
    /\ Constructed
    /\ cb.State = "half_open"
    /\ cbres.op = "IsAllowed" /\ cbres.result
    /\ now - cb.LastTripped > cb.CooldownPeriod + 1

\* C14: RecordFailure adds one to the counter, returns true exactly when the
\* call moved the breaker from closed to open, and on an open breaker returns
\* false and leaves the state and the trip time alone.
C14_RecordFailureReportsTrip ==
    [][ BreakerStep("RecordFailure") =>
          /\ cb'.FailureCount = cb.FailureCount + 1
          /\ cbres'.result <=> (cb.State = "closed" /\ cb'.State = "open")
          /\ cb.State = "open"
              => (~cbres'.result /\ cb'.State = "open"
                    /\ cb'.LastTripped = cb.LastTripped) ]_vars

\* C15: RecordSuccess leaves the counter at 0 and the breaker closed, whatever
\* the state before, and an IsAllowed at any later time returns true.
C15_RecordSuccessCloses ==
    [][ BreakerStep("RecordSuccess") =>
          /\ cb'.FailureCount = 0
          /\ cb'.State = "closed"
          /\ \A t \in now..MaxBreakerTime : IsAllowed(cb', t).result ]_vars

\* RecordSuccess has closed a breaker that tripped at this very time, before
\* any cooldown.
C15_Witness ==
    /\ Constructed
    /\ cbres.op = "RecordSuccess"
    /\ cb.State = "closed" /\ cb.FailureCount = 0
    /\ cb.LastTripped = now

\* C16: CheckTrustDrop opens the breaker at the current time when the trust is
\* under the floor, returns false and changes nothing otherwise, and never
\* touches the failure counter.
C16_TrustDropTrips ==
    [][ BreakerStep("CheckTrustDrop") =>
          /\ cb'.FailureCount = cb.FailureCount
          /\ cbres'.trust < cb.TrustFloor
              => (cbres'.result /\ cb'.State = "open" /\ cb'.LastTripped = now)
          /\ cbres'.trust >= cb.TrustFloor
              => (~cbres'.result /\ cb' = cb) ]_vars

\* A trust drop has opened a breaker that never saw a failure.
C16_Witness ==
    /\ Constructed
    /\ cbres.op = "CheckTrustDrop" /\ cbres.result
    /\ cb.State = "open" /\ cb.FailureCount = 0
    /\ cb.LastTripped = now

\* ------------------------------------------------------------------ claims: trigger responses

\* A RaiseTrigger call on a stored task has just returned without error.
Responded == ret'.op = "RaiseTrigger" /\ Stored(ret'.task) /\ ~ret'.err

\* The trigger of the last call asks for a re-delegation of a task.
Redelegating(task, type, urgent) ==
    \/ urgent /\ task.Reversible
    \/ ~urgent /\ type \in {"performance_degradation", "agent_unresponsive"}

\* The store left by reDelegate when the channel of the re-publication fails.
BeforePublication(task) ==
    reDelegate(World, {IF task.DelegateeID # "" THEN 3 ELSE 2}, task)

\* C17: a re-delegation (urgent trigger on a reversible task, or a non-urgent
\* performance or unresponsive trigger) records a failure with quality 0 and
\* timeliness 0 against the delegatee, clears the delegatee, stores the task as
\* re_allocating and then publishes it, so that it ends as bidding with no
\* delegatee.
C17_RedelegationMechanics ==
    [][ (Responded /\ Redelegating(TaskOf(ret'.task), ret'.type, ret'.urgent)) =>
          LET task == TaskOf(ret'.task)
              key == <<task.DelegateeID, <<task.TaskID, now>>>>
          IN  /\ IF task.DelegateeID # ""
                 THEN /\ key \in DOMAIN rep'
                      /\ rep'[key].Outcome = "failure"
                      /\ rep'[key].QualityScore = 0
                      /\ rep'[key].TimelinessScore = 0
                      /\ \A k \in DOMAIN rep' \ {key} : k \in DOMAIN rep /\ rep'[k] = rep[k]
                 ELSE rep' = rep
              /\ BeforePublication(task).err
              /\ BeforePublication(task).w.Tasks[SpecKey(task.TaskID)]
                     = [task EXCEPT !.DelegateeID = "", !.Status = "re_allocating"]
              /\ tasks' = [tasks EXCEPT ![SpecKey(task.TaskID)] =
                               [task EXCEPT !.DelegateeID = "", !.Status = "bidding"]]
              /\ ret'.pub = <<task.TaskID>> ]_vars

\* An urgent trigger has re-delegated a reversible task: it is in bidding
\* without delegatee, published, and a failure is on record.
C17_Witness ==
    /\ ret.op = "RaiseTrigger" /\ ret.urgent /\ ~ret.err
    /\ Stored(ret.task)
    /\ TaskOf(ret.task).Reversible
    /\ TaskOf(ret.task).Status = "bidding"
    /\ TaskOf(ret.task).DelegateeID = ""
    /\ ret.pub = <<ret.task>>
    /\ \E k \in DOMAIN rep : k[2] = <<ret.task, now>> /\ rep[k].Outcome = "failure"

\* C18: a non-urgent budget overrun stores the budget times 1.2 and changes
\* nothing else: status and delegatee stay, no reputation record, no contract,
\* no publication; the k-th extension in a row gives 1.2^k times the first
\* budget.
C18_BudgetExtension ==
    [][ (Responded /\ ~ret'.urgent /\ ret'.type = "budget_overrun") =>
          LET task == TaskOf(ret'.task)
          IN  /\ tasks'[SpecKey(task.TaskID)].MaxBudget * 5 = task.MaxBudget * 6
              /\ tasks' = [tasks EXCEPT ![SpecKey(task.TaskID)].MaxBudget =
                               tasks'[SpecKey(task.TaskID)].MaxBudget]
              /\ \A k \in 0..MaxExtensions :
                     task.MaxBudget = BudgetAfter(k)
                         => tasks'[SpecKey(task.TaskID)].MaxBudget = BudgetAfter(k + 1)
              /\ rep' = rep /\ contracts' = contracts
              /\ ret'.pub = <<>> ]_vars

\* The budget of a task has just been extended a second time.
C18_Witness ==
    /\ ret.op = "RaiseTrigger" /\ ~ret.urgent /\ ~ret.err
    /\ ret.type = "budget_overrun"
    /\ Stored(ret.task)
    /\ TaskOf(ret.task).MaxBudget = BudgetAfter(2)

\* C19: a non-urgent verification failure stores the task as re_allocating and
\* nothing more: no publication, the delegatee kept, no reputation record.
C19_VerificationFailureStops ==
    [][ (Responded /\ ~ret'.urgent /\ ret'.type = "verification_failure") =>
          /\ tasks' = [tasks EXCEPT ![SpecKey(ret'.task)].Status = "re_allocating"]
          /\ rep' = rep
          /\ ret'.pub = <<>> ]_vars

\* A non-urgent verification failure has left an assigned task re_allocating
\* with its delegatee.
C19_Witness ==
    /\ ret.op = "RaiseTrigger" /\ ~ret.urgent /\ ~ret.err
    /\ ret.type = "verification_failure"
    /\ Stored(ret.task)
    /\ TaskOf(ret.task).Status = "re_allocating"
    /\ TaskOf(ret.task).DelegateeID # ""

\* The trigger types evaluateAndRespond names.
RespondedTypes ==
    {"budget_overrun", "performance_degradation", "agent_unresponsive",
     "verification_failure"}

\* C20: a non-urgent trigger of any other type changes no task and no
\* reputation record; the trigger itself is stored.
C20_OtherTriggersOnlyLogged ==
    [][ (Responded /\ ~ret'.urgent /\ ret'.type \notin RespondedTypes) =>
          /\ tasks' = tasks
          /\ rep' = rep
          /\ contracts' = contracts
          /\ ret'.pub = <<>>
          /\ \E k \in DOMAIN triggers' :
                /\ k[1] = ret'.task
                /\ triggers'[k].Type = ret'.type
                /\ ~triggers'[k].Urgent ]_vars

\* A non-urgent security alert on an assigned task has been logged.
C20_Witness ==
    /\ ret.op = "RaiseTrigger" /\ ~ret.urgent /\ ~ret.err
    /\ ret.type \notin RespondedTypes
    /\ Stored(ret.task)
    /\ TaskOf(ret.task).Status = "assigned"
    /\ \E k \in DOMAIN triggers : k[1] = ret.task /\ triggers[k].Type = ret.type


\* ------------------------------------------------------------------------
\* claims: collaborator failures
\* ------------------------------------------------------------------------

\* C21: a collaborator call that fails inside an engine operation is never
\* swallowed: whenever a call made during CreateTask, AcceptBid,
\* RecordVerification or RaiseTrigger (and the re-delegation it starts) fails,
\* the operation returns an error.
C21_FailuresSurface ==
    [][(ops' = ops + 1 /\ ret'.failed) => ret'.err]_vars

\* ------------------------------------------------------------------------
\* claims: decomposition
\* ------------------------------------------------------------------------

\* The identifiers of a list of sub-tasks, in order.
IDsOf(subTasks) == [i \in 1..Len(subTasks) |-> subTasks[i].TaskID]

\* The call that ends in the primed state is a DecomposeTask that returned
\* no error.
Decomposed == ops' = ops + 1 /\ ret'.op = "DecomposeTask" /\ ~ret'.err

EngineStep(op) == ops' = ops + 1 /\ ret'.op = op

\* The float64 sc is the value h hundredths.
ScoreIs(sc, h) == ~sc.nan /\ sc.num = h * sc.den

\* The keys of the records RecordReputation has stored for the agent.
RecordKeys(store, agentID) ==
    { k \in DOMAIN store : k[1] = agentID /\ k[2] # HistoryAspect }

\* C23: a record appended with RecordReputation for an agent is part of what
\* ComputeTrustScore aggregates for that agent: when the ledger holds exactly
\* one record of the agent, all four scores equal to s, and nobody else has
\* written the agent's history, ComputeTrustScore returns s.
C23_RecordedHistoryIsAggregated ==
    [][(/\ EngineStep("ComputeTrustScore")
        /\ Cardinality(RecordKeys(rep, ret'.agent)) = 1
        /\ <<ret'.agent, HistoryAspect>> \notin DOMAIN rep)
       => \A k \in RecordKeys(rep, ret'.agent) :
              /\ Score4(rep[k]) = 4 * rep[k].QualityScore
              /\ ScoreIs(ret'.score, rep[k].QualityScore)]_vars

\* C24: with component scores in [0,1] ComputeTrustScore returns a value in
\* [0,1], whatever the timestamps of the records, later than the clock
\* included.
C24_TrustScoreInUnitInterval ==
    ret.op = "ComputeTrustScore"
        => /\ ~ret.score.nan
           /\ 0 <= ret.score.num
           /\ ret.score.num <= 100 * ret.score.den

\* C25: for an agent without records, whether the store holds an empty
\* history or no history entry at all, ComputeTrustScore returns exactly 0.5
\* and no error.
C25_NoRecordsIsNeutralWithoutError ==
    [][(/\ EngineStep("ComputeTrustScore")
        /\ \/ <<ret'.agent, HistoryAspect>> \notin DOMAIN rep
           \/ rep[<<ret'.agent, HistoryAspect>>] = <<>>)
       => (ScoreIs(ret'.score, 50) /\ ~ret'.err)]_vars

\* C26: the reputation ledger is append-only: a successful RecordReputation
\* adds one entry and leaves every earlier entry as it was, two records for
\* the same agent and task at the same clock reading included.
C26_ReputationAppendOnly ==
    [][(EngineStep("RecordReputation") /\ ~ret'.err)
       => /\ \A k \in DOMAIN rep : k \in DOMAIN rep' /\ rep'[k] = rep[k]
          /\ Cardinality(DOMAIN rep') = Cardinality(DOMAIN rep) + 1]_vars

\* The call that ends in the primed state has stored a trigger: RaiseTrigger,
\* or RecordVerification of a failed verification of a stored task.
TriggerStored ==
    \/ EngineStep("RaiseTrigger") /\ ~ret'.failed
    \/ /\ EngineStep("RecordVerification") /\ ~ret'.failed
       /\ ~ret'.passed /\ Stored(ret'.task)

\* C27: the trigger log is append-only: every trigger that is stored adds one
\* entry and leaves every earlier entry as it was, two triggers for the same
\* task with the same trigger id included.
C27_TriggerLogAppendOnly ==
    [][TriggerStored
       => /\ \A k \in DOMAIN triggers :
                 k \in DOMAIN triggers' /\ triggers'[k] = triggers[k]
          /\ Cardinality(DOMAIN triggers') = Cardinality(DOMAIN triggers) + 1]_vars

\* ------------------------------------------------------------------------
\* claims: bid ranking
\* ------------------------------------------------------------------------

\* The weighted sum of the five dimension scores of a scored bid.
WeightedTotal(sb, weights) ==
    weights.Cost * sb.CostScore + weights.Speed * sb.SpeedScore
        + weights.Trust * sb.TrustScore + weights.Confidence * sb.ConfidenceScore
        + weights.CapMatch * sb.CapMatchScore

\* C28: RankBids returns a permutation of its input (same length, every
\* submitted bid exactly once, nothing for no bids), ordered by non-increasing
\* total score, the total being the weighted sum of the five dimension scores.
C28_RankIsSortedPermutation ==
    rank.op = "RankBids"
        => /\ Len(rank.out) = Len(rank.bids)
           /\ \A i \in 1..Len(rank.bids) :
                  Cardinality({ j \in 1..Len(rank.out) : rank.out[j].Bid = rank.bids[i] }) = 1
           /\ \A j \in 1..(Len(rank.out) - 1) : rank.out[j].Score >= rank.out[j + 1].Score
           /\ \A j \in 1..Len(rank.out) :
                  rank.out[j].Score = WeightedTotal(rank.out[j], DefaultWeights)

\* MaxBids bids were ranked, the last submitted came out first and the totals
\* are not all equal.
C28_Witness ==
    /\ rank.op = "RankBids"
    /\ Len(rank.bids) = MaxBids
    /\ rank.out[1].Bid = rank.bids[MaxBids]
    /\ rank.out[1].Score > rank.out[MaxBids].Score

C30_TrustScoreIsSuppliedOrNeutral ==
    rank.op = "RankBids"
        => \A j \in 1..Len(rank.out) :
               rank.out[j].TrustScore =
                   IF rank.out[j].Bid.AgentID \in DOMAIN rank.agentTrust
                   THEN rank.agentTrust[rank.out[j].Bid.AgentID]
                   ELSE 50

\* The lowest and the highest of a field over the submitted bids.
Lowest(bids, field) == Min({ bids[i][field] : i \in 1..Len(bids) })
Highest(bids, field) == Max({ bids[i][field] : i \in 1..Len(bids) })

\* sc (hundredths) is 1 - (v - lo)/(hi - lo), or 1.0 when lo = hi.
Normalized(sc, v, lo, hi) ==
    /\ 0 <= sc /\ sc <= 100
    /\ IF hi > lo THEN sc * (hi - lo) = 100 * (hi - lo) - 100 * (v - lo)
       ELSE sc = 100

\* C31: for every bid CostScore = 1 - (cost - minCost)/(maxCost - minCost)
\* with the minimum and maximum taken over the submitted bids, and SpeedScore
\* likewise on the estimated time; both are in [0,1], the cheapest (fastest)
\* bid has 1 and the dearest (slowest) 0, and when all bids share one cost
\* (time) the score is 1.0, for zero and negative costs too.
C31_CostAndSpeedNormalized ==
    rank.op = "RankBids"
        => \A j \in 1..Len(rank.out) :
               /\ Normalized(rank.out[j].CostScore, rank.out[j].Bid.EstimatedCost,
                             Lowest(rank.bids, "EstimatedCost"),
                             Highest(rank.bids, "EstimatedCost"))
               /\ Normalized(rank.out[j].SpeedScore, rank.out[j].Bid.EstimatedTime,
                             Lowest(rank.bids, "EstimatedTime"),
                             Highest(rank.bids, "EstimatedTime"))

\* The members of a capability list.
CapSet(caps) == { caps[i] : i \in 1..Len(caps) }

\* C32: CapMatchScore is |required /\ offered| / |required| with both lists
\* taken as sets, lies in [0,1], and is 1.0 when nothing is required, also
\* for an agent without capability entry.
C32_CapMatchIsSetOverlap ==
    rank.op = "RankBids"
        => \A j \in 1..Len(rank.out) :
               LET required == CapSet(rank.requiredCaps)
                   offered == CapSet(MapGet(AgentCaps, rank.out[j].Bid.AgentID, <<>>))
                   sc == rank.out[j].CapMatchScore
               IN  /\ 0 <= sc /\ sc <= 100
                   /\ IF required = {} THEN sc = 100
                      ELSE sc * Cardinality(required)
                               = 100 * Cardinality(required \cap offered)

\* ------------------------------------------------------------------------
\* claims: decay weighting
\* ------------------------------------------------------------------------

\* The history ComputeTrustScore last read for the agent, and the ages of its
\* records in clock units.
HistoryOf(agentID) == rep[<<agentID, HistoryAspect>>]
AgeOf(rec) == now - rec.RecordedAt

\* The product of (HalfLife + age) over the records other than the i-th: the
\* weight HalfLife / (HalfLife + age) of the i-th record over the common
\* denominator of all weights.
RECURSIVE OthersProduct(_, _, _)
OthersProduct(records, i, j) ==
    IF j > Len(records) THEN 1
    ELSE (IF j = i THEN 1 ELSE HalfLife + AgeOf(records[j]))
             * OthersProduct(records, i, j + 1)

RECURSIVE MeanNumerator(_, _)
MeanNumerator(records, i) ==
    IF i > Len(records) THEN 0
    ELSE Score4(records[i]) * OthersProduct(records, i, 1) + MeanNumerator(records, i + 1)

RECURSIVE MeanDenominator(_, _)
MeanDenominator(records, i) ==
    IF i > Len(records) THEN 0
    ELSE 4 * OthersProduct(records, i, 1) + MeanDenominator(records, i + 1)

\* ComputeTrustScore has just returned a score for a history of records none
\* of which is later than the clock.
ScoredPastHistory ==
    /\ ret.op = "ComputeTrustScore" /\ ~ret.err
    /\ <<ret.agent, HistoryAspect>> \in DOMAIN rep
    /\ Len(HistoryOf(ret.agent)) > 0
    /\ \A i \in 1..Len(HistoryOf(ret.agent)) : AgeOf(HistoryOf(ret.agent)[i]) >= 0

\* C33: the weight of a record is 1/(1 + ageDays/30), strictly decreasing in
\* the age for ages >= 0 (1 at age 0, 1/2 at 30 days), and the trust score is
\* the mean of the records' component averages normalised by these weights.
C33_DecayWeightedMean ==
    ScoredPastHistory
        => /\ \A a, b \in 0..MaxTrustTime : a < b => Weight(a) > Weight(b)
           /\ Weight(0) = 2 * Weight(HalfLife)
           /\ \A a \in 0..MaxTrustTime : Weight(a) * (HalfLife + a) = HalfLife * WeightScale
           /\ ~ret.score.nan
           /\ ret.score.num * MeanDenominator(HistoryOf(ret.agent), 1)
                  = ret.score.den * MeanNumerator(HistoryOf(ret.agent), 1)

\* The score of a history of a record of age 0 with scores 1.0 and a record of
\* 30 days with scores 0 has been computed; it is 2/3.
C33_Witness ==
    /\ ScoredPastHistory
    /\ Len(HistoryOf(ret.agent)) = 2
    /\ AgeOf(HistoryOf(ret.agent)[1]) = 0
    /\ HistoryOf(ret.agent)[1].QualityScore = 100
    /\ AgeOf(HistoryOf(ret.agent)[2]) = HalfLife
    /\ HistoryOf(ret.agent)[2].QualityScore = 0
    /\ 3 * ret.score.num = 200 * ret.score.den

\* ------------------------------------------------------------------------
\* claims: breaker and tokens
\* ------------------------------------------------------------------------

\* Token i is borne by the agent or attenuated, in any number of steps, from a
\* token the agent bears.
RECURSIVE InChainOf(_, _, _)
InChainOf(toks, i, agentID) ==
    \/ toks[i].d.BearerID = agentID
    \/ toks[i].parent # 0 /\ InChainOf(toks, toks[i].parent, agentID)

\* C34: once the breaker of an agent is open, whether by failures or by a
\* trust drop, ValidateAccess fails on every token the agent bears and on
\* every token attenuated from one.
C34_TripInvalidatesTokens ==
    [][(/\ dres' # dres /\ dres'.op = "ValidateAccess"
        /\ Constructed /\ cb.State = "open"
        /\ InChainOf(tokens, dres'.tok, cb.AgentID))
       => dres'.err # Nil]_vars

\* ------------------------------------------------------------------------
\* claims: failed verification
\* ------------------------------------------------------------------------

\* The task state the response to a verification-failure trigger gives a task.
VerifyFailResponse(task) ==
    IF task.Criticality # "critical" THEN [task EXCEPT !.Status = "re_allocating"]
    ELSE IF task.Reversible THEN [task EXCEPT !.Status = "bidding", !.DelegateeID = ""]
    ELSE [task EXCEPT !.Status = "cancelled"]

\* C35: when RecordVerification returns from a failed result, the stored task
\* is the response to the verification-failure trigger: re_allocating for a
\* non-critical task, bidding without delegatee for a critical reversible
\* one, cancelled for a critical irreversible one.
C35_FailedVerificationKeepsResponse ==
    [][ (/\ EngineStep("RecordVerification") /\ ~ret'.passed /\ ~ret'.err
         /\ SpecKey(ret'.task) \in DOMAIN tasks)
        => tasks'[SpecKey(ret'.task)] = VerifyFailResponse(tasks[SpecKey(ret'.task)]) ]_vars

\* ------------------------------------------------------------------------
\* claims: attenuation and access
\* ------------------------------------------------------------------------

\* C36: attenuation never widens access. At every time, for every operation
\* and scope, a request that ValidateAccess admits on a child token is also
\* admitted on the token it was attenuated from, also when the parent was
\* revoked after the child was created or has expired.
C36_AttenuationNeverWidens ==
    \A i \in 1..Len(tokens) : \A rq \in Requests :
        ( /\ tokens[i].parent # 0
          /\ ValidateAccess(tokens[i].d, rq[1], rq[2], now) = Nil )
        => ValidateAccess(tokens[tokens[i].parent].d, rq[1], rq[2], now) = Nil

\* ------------------------------------------------------------------------
\* claims: contracts
\* ------------------------------------------------------------------------

\* The stored contracts of a task that are active.
ActiveContracts(taskID) ==
    { k \in DOMAIN contracts :
          contracts[k].TaskID = taskID /\ contracts[k].Status = "active" }

\* C37: a task has at most one active contract; while the task is assigned the
\* delegatee of that contract is the task's delegatee; and a contract is
\* stored only for a task whose assignment AcceptBid has stored.
C37_OneActiveContract ==
    \A taskID \in {RootID} :
        /\ Cardinality(ActiveContracts(taskID)) <= 1
        /\ (Stored(taskID) /\ TaskOf(taskID).Status = "assigned") =>
              \A k \in ActiveContracts(taskID) :
                  contracts[k].DelegateeID = TaskOf(taskID).DelegateeID
        /\ ActiveContracts(taskID) # {} => Stored(taskID)

\* ------------------------------------------------------------------------
\* claims: half-open probe
\* ------------------------------------------------------------------------

\* C38: a failed half-open probe re-opens the breaker. RecordFailure called in
\* the half-open state leaves the breaker open with the trip time of the call,
\* so that IsAllowed refuses until a new cooldown has elapsed, whether the
\* breaker was tripped by the failure counter or by CheckTrustDrop.
C38_FailedProbeReopens ==
    [][ (BreakerStep("RecordFailure") /\ cb.State = "half_open") =>
          /\ cb'.State = "open"
          /\ cb'.LastTripped = now
          /\ ~IsAllowed(cb', now).result ]_vars

\* ------------------------------------------------------------------------
\* claims: interleaved calls
\* ------------------------------------------------------------------------

\* The store after the call of c has run alone on the store w.
RunAlone(w, c) ==
    IF inflight[c].op = "AcceptBid"
    THEN AcceptBid(w, {}, [TaskID |-> RootID, AgentID |-> inflight[c].agent]).w
    ELSE RaiseTrigger(w, {}, [TriggerID |-> <<"trigger", c>>, TaskID |-> RootID,
                              Type |-> inflight[c].op, AgentID |-> "",
                              Urgent |-> FALSE]).w

\* The stored task after the two calls have run one after the other, first to
\* last, on the store they found.
Serial(first, last) ==
    RunAlone(RunAlone([World EXCEPT !.Tasks = base], first), last).Tasks[SpecKey(RootID)]

\* C39: when two calls on one task have both returned, however their store
\* reads and writes interleaved, the stored task is the one that running the
\* two calls one after the other, in one of the two orders, leaves.
C39_InterleavingIsSerializable ==
    AllReturned => TaskOf(RootID) \in {Serial("c1", "c2"), Serial("c2", "c1")}

====
